---- MODULE Spec2Model ----
(***************************************************************************)
(* Model of src/translate/gemini.rs: translate, translate_parallel and     *)
(* translate_bulk.  One invocation of translate is followed from the call  *)
(* to its return or to the panic that ends it.  The call stack of the      *)
(* recursive translate_parallel is the variable `stack`; the remote        *)
(* service (client::gemini::request) is the environment, which answers    *)
(* every request in flight with an error, an unparsable text or a JSON    *)
(* list of any length.                                                    *)
(***************************************************************************)
EXTENDS Integers, Sequences, FiniteSets, TLC

\* Bounds of the model.
MaxLines == 3
MaxChunk == 2
MaxRequests == 2
MaxSentences == 2

\* `if retry_count > 4 { panic!("retry max error") }`
MaxRetry == 4

VARIABLES
    pc,          \* "init" | "running" | "done" | "panicked"
    panic,       \* the message of the panic that ended the call, "" when none
    lines,       \* argument `lines` of translate
    context,     \* Context: lines (chunk size), requests (concurrency limit)
    sentences,   \* the service: how many sentences it writes for a paragraph
    stack,       \* activations of translate_parallel, innermost last
    output,      \* the Vec<String> translate returned (meaningful when pc = "done")
    served,      \* ghost: input line -> the line a count-matching response held for it
    sent,        \* ghost: retry_count -> number of requests issued at that depth
    carried,     \* ghost: retry_count -> line -> number of requests at that depth carrying it
    mismatched,  \* ghost: retry_count -> number of mismatching results received
    anomaly,     \* ghost: what the mismatching results so far amount to
    errors,      \* ghost: the requests that request() answered with Err
    overtaken,   \* ghost: a response was pushed after one with a greater number
    log,         \* the last error-level record written to the log
    stats_log    \* the last record written by Stats::log

vars == <<pc, panic, lines, context, sentences, stack, output, served, sent, carried,
          mismatched, anomaly, errors, overtaken, log, stats_log>>

Min(a, b) == IF a < b THEN a ELSE b

\* An input line is identified by its position in the input.
InputLines == { [i \in 1..n |-> i] : n \in 0..MaxLines }

(***************************************************************************)
(* The remote service.                                                     *)
(***************************************************************************)

\* A sentence of a translated paragraph: what the service wrote as sentence j
\* of the paragraph at offset k of a request made at depth d for the lines ol.
\* A paragraph beyond the request's lines belongs to no input line (0).
Sentence(ol, d, k, j) == << <<IF k <= Len(ol) THEN ol[k] ELSE 0, d, j>> >>

\* struct Translated { text: Vec<String> }
Translated(ol, d, k, s) == [text |-> [j \in 1..s |-> Sentence(ol, d, k, j)]]

\* The answers request() can give to a chunk of original lines ol at depth d:
\* Err, a text that is no JSON list of Translated, or a list of n paragraphs
\* (none, fewer, as many or more than asked for).  Within one run the service
\* writes the same number of sentences for every paragraph.
Replies(ol, d) ==
    { [kind |-> "err", list |-> <<>>], [kind |-> "garbage", list |-> <<>>] }
    \cup { [kind |-> "json", list |-> [k \in 1..n |-> Translated(ol, d, k, sentences)]] :
             n \in 0..(Len(ol) + 1) }

(***************************************************************************)
(* translate_bulk                                                          *)
(***************************************************************************)

NL == <<0, 0, 0>>

\* [String]::join("\n")
RECURSIVE Join(_)
Join(text) ==
    IF Len(text) = 0 THEN <<>>
    ELSE IF Len(text) = 1 THEN text[1]
    ELSE text[1] \o <<NL>> \o Join(Tail(text))

\* Mutant: on a parse failure the original lines are passed on as the translation.
BulkTranslated_PassThrough(number, original_lines, reply) ==
    [number |-> number,
     original_lines |-> original_lines,
     translated_lines |->
        IF reply.kind = "garbage"
        THEN [k \in 1..Len(original_lines) |-> << <<original_lines[k], 0, 0>> >>]
        ELSE [k \in 1..Len(reply.list) |-> Join(reply.list[k].text)]]

\* The BulkTranslated that translate_bulk returns for a reply that is not Err.
BulkTranslated(number, original_lines, reply) ==
    [number |-> number,
     original_lines |-> original_lines,
     translated_lines |->
        IF reply.kind = "garbage" THEN <<>>
        ELSE [k \in 1..Len(reply.list) |-> Join(reply.list[k].text)]]

(***************************************************************************)
(* translate_parallel                                                      *)
(***************************************************************************)

\* A fresh activation: the chunks iterator at the start of `lines`, number = 0,
\* nothing in progress, no responses.  `logged` (ghost) holds the numbers of
\* the responses whose stats this activation has logged.
Activation(ls, chunk_lines, retry_count) ==
    [lines |-> ls, rest |-> ls, chunk_lines |-> chunk_lines,
     retry_count |-> retry_count,
     number |-> 0, in_progress |-> {}, responses |-> <<>>,
     at |-> "collect", translated |-> <<>>, logged |-> {}]

Top == stack[Len(stack)]
SetTop(f) == [stack EXCEPT ![Len(stack)] = f]

\* slice::Chunks::next: the first chunk_lines elements of what is left.
\* Mutant: a chunk one line longer than the iterator advances by.
NextChunk_OffByOne(f) == SubSeq(f.rest, 1, Min(f.chunk_lines + 1, Len(f.rest)))

NextChunk(f) == SubSeq(f.rest, 1, Min(f.chunk_lines, Len(f.rest)))
\* Mutant: the iterator advances one line less than the chunk it gave, as
\* `windows` would.
AfterChunk_Overlap(f) ==
    SubSeq(f.rest,
           (IF Min(f.chunk_lines, Len(f.rest)) > 1
            THEN Min(f.chunk_lines, Len(f.rest)) - 1 ELSE 1) + 1,
           Len(f.rest))

AfterChunk(f) == SubSeq(f.rest, Min(f.chunk_lines, Len(f.rest)) + 1, Len(f.rest))

\* Mutant: a future is admitted while `requests` are already in progress.
HasRoom_Inclusive(f) == Cardinality(f.in_progress) <= context.requests

\* Mutant: a static partition, the next `requests` chunks start only when
\* the previous `requests` have all completed.
HasRoom_Batch(f) ==
    /\ Cardinality(f.in_progress) < context.requests
    /\ (f.in_progress = {} \/ f.number % context.requests # 0)

\* Mutant: buffer_unordered(requests - 1).
HasRoom_OneLess(f) == Cardinality(f.in_progress) < context.requests - 1

\* buffer_unordered(requests): the stream is polled for a new future only
\* while fewer than `requests` are in progress.
HasRoom(f) == Cardinality(f.in_progress) < context.requests

CanAdmit(f) == f.at = "collect" /\ Len(f.rest) > 0 /\ HasRoom(f)

\* Mutant: the round is taken to be over whenever no future is in progress.
RoundOver_Idle(f) == f.in_progress = {}

\* Mutant: the round is taken to be over once the chunks iterator is exhausted.
RoundOver_StreamDone(f) == Len(f.rest) = 0

\* bodies_stream.next() is None: the chunks iterator is exhausted and no
\* future is in progress.
RoundOver(f) == Len(f.rest) = 0 /\ f.in_progress = {}

RECURSIVE Insert(_, _)
Insert(r, sorted) ==
    IF sorted = <<>> THEN <<r>>
    ELSE IF r.number < sorted[1].number THEN <<r>> \o sorted
    ELSE <<sorted[1]>> \o Insert(r, Tail(sorted))

\* Mutant: the responses are left in completion order.
SortByNumber_Unsorted(rs) == rs

\* responses.sort_by(|a, b| a.number.cmp(&b.number)), a stable sort.
RECURSIVE SortByNumber(_)
SortByNumber(rs) ==
    IF rs = <<>> THEN <<>>
    ELSE Insert(rs[Len(rs)], SortByNumber(SubSeq(rs, 1, Len(rs) - 1)))

\* Mutant: only a response with too few lines is taken for a mismatch.
Mismatch_OnlyShort(r) == Len(r.translated_lines) < Len(r.original_lines)

\* translated_lines.len() != original_lines.len()
Mismatch(r) == Len(r.translated_lines) # Len(r.original_lines)

\* Mutant: the ceiling is one retry higher.
RetryMaxError_Late(retry_count) == retry_count > MaxRetry + 1

\* retry_count > 4
RetryMaxError(retry_count) == retry_count > MaxRetry

\* A record of the log: the message, the chunk and retry depth it is about,
\* and the translated lines written with it.
NoRecord == [msg |-> "", about |-> <<>>, translated |-> <<>>, depth |-> 0]

\* error!("JSON Parse error choice:{}", response.text): the text is the one the
\* service gave to the request for these lines at this depth.
ParseErrorRecord(ol, d) ==
    [msg |-> "JSON Parse error choice", about |-> ol, translated |-> <<>>, depth |-> d]

\* Mutant: only the original lines are traced.
LengthErrorRecord_OriginalOnly(ol, tl, d) ==
    [msg |-> "translated line length error", about |-> ol, translated |-> <<>>, depth |-> d]

\* trace! of the original lines, trace! of the translated lines,
\* error!("retry count: {}"), and last
\* error!("translated line length error {}/{}").
LengthErrorRecord(ol, tl, d) ==
    [msg |-> "translated line length error", about |-> ol, translated |-> tl, depth |-> d]

\* response.stats.log(): the stats of the response to the request for these
\* lines at this depth.
NoStats == [about |-> <<>>, depth |-> 0]
StatsRecord(ol, d) == [about |-> ol, depth |-> d]

\* Mutant: an Err of request() is not unwrapped with expect, its (empty) list is used.
Panics_Never(reply) == FALSE

\* .expect("Gemini API Request Error"): the replies on which translate_bulk panics.
Panics(reply) == reply.kind = "err"

\* Mutant: the retry sends all the lines of the call again.
Recover_AllLines(original_lines, retry_count) ==
    Activation(lines, 1, retry_count + 1)

\* Mutant: the retry sends the chunk again as one request.
Recover_WholeChunk(original_lines, retry_count) ==
    Activation(original_lines, Len(original_lines), retry_count + 1)

\* Box::pin(translate_parallel(.., original_lines, 1, requests, retry_count + 1))
Recover(original_lines, retry_count) == Activation(original_lines, 1, retry_count + 1)

\* The lines of a chunk, as a set.
Range(s) == { s[k] : k \in 1..Len(s) }

\* The mismatching results received so far: none; one, of the chunk
\* original_lines, one line short; or anything else.
NoAnomaly == [kind |-> "none", original_lines |-> <<>>]
OneShort(ol) == [kind |-> "one short", original_lines |-> ol]
OtherAnomaly == [kind |-> "other", original_lines |-> <<>>]

\* The requests that carried each line, by depth, with one more request at
\* depth d carrying the lines S.
Carry(f, d, S) ==
    LET old == IF d \in DOMAIN f THEN f[d] ELSE <<>>
        new == [i \in DOMAIN old \cup S |->
                  (IF i \in DOMAIN old THEN old[i] ELSE 0) + (IF i \in S THEN 1 ELSE 0)]
    IN  [e \in DOMAIN f \cup {d} |-> IF e = d THEN new ELSE f[e]]

Bump(f, d) == IF d \in DOMAIN f THEN [f EXCEPT ![d] = @ + 1] ELSE f @@ (d :> 1)

Init ==
    /\ pc = "init"
    /\ panic = ""
    /\ lines \in InputLines
    /\ context \in [lines : 1..MaxChunk, requests : 1..MaxRequests]
    /\ sentences \in 1..MaxSentences
    /\ stack = <<>>
    /\ output = <<>>
    /\ served = <<>>
    /\ sent = <<>>
    /\ carried = <<>>
    /\ mismatched = <<>>
    /\ anomaly = NoAnomaly
    /\ errors = {}
    /\ overtaken = FALSE
    /\ log = NoRecord
    /\ stats_log = NoStats

\* Mutant: translate without the is_empty short-circuit.
Translate_NoShortCircuit ==
    /\ pc = "init"
    /\ pc' = "running"
    /\ stack' = <<Activation(lines, context.lines, 0)>>
    /\ UNCHANGED <<panic, lines, context, sentences, output, served, sent, carried, mismatched, anomaly,
                   errors, overtaken, log, stats_log>>

\* translate: the empty input is returned as it is; otherwise
\* translate_parallel(lines, context.lines, context.requests, 0).
Translate ==
    /\ pc = "init"
    /\ IF lines = <<>>
       THEN /\ pc' = "done"
            /\ output' = lines
            /\ stack' = stack
       ELSE /\ pc' = "running"
            /\ output' = output
            /\ stack' = <<Activation(lines, context.lines, 0)>>
    /\ UNCHANGED <<panic, lines, context, sentences, served, sent, carried, mismatched, anomaly,
                   errors, overtaken, log, stats_log>>

\* The map closure and buffer_unordered: the next chunk is taken from the
\* iterator, numbered, and its translate_bulk future is started.
Admit ==
    /\ pc = "running"
    /\ CanAdmit(Top)
    /\ stack' = SetTop([Top EXCEPT
            !.rest = AfterChunk(Top),
            !.number = Top.number + 1,
            !.in_progress = @ \cup
                {[number |-> Top.number + 1, original_lines |-> NextChunk(Top)]}])
    /\ sent' = Bump(sent, Top.retry_count)
    /\ carried' = Carry(carried, Top.retry_count, Range(NextChunk(Top)))
    /\ UNCHANGED <<pc, panic, lines, context, sentences, output, served, mismatched, anomaly,
                   errors, overtaken, log, stats_log>>

\* request(...).await.expect("Gemini API Request Error") on Err: the panic
\* unwinds every activation and drops the futures still in progress.
RequestError ==
    /\ pc = "running"
    /\ Top.at = "collect"
    /\ ~CanAdmit(Top)
    /\ \E q \in Top.in_progress :
       \E reply \in Replies(q.original_lines, Top.retry_count) :
         /\ Panics(reply)
         /\ errors' = errors \cup
                {[original_lines |-> q.original_lines, depth |-> Top.retry_count]}
    /\ pc' = "panicked"
    /\ panic' = "Gemini API Request Error"
    /\ stack' = <<>>
    /\ UNCHANGED <<lines, context, sentences, output, served, sent, carried, mismatched, anomaly,
                   overtaken, log, stats_log>>

\* One translate_bulk future completes with a BulkTranslated, in any order,
\* and `responses.push(response)`.
Complete ==
    /\ pc = "running"
    /\ Top.at = "collect"
    /\ ~CanAdmit(Top)
    /\ \E q \in Top.in_progress :
       \E reply \in Replies(q.original_lines, Top.retry_count) :
         /\ ~Panics(reply)
         /\ LET r == BulkTranslated(q.number, q.original_lines, reply)
                d == Top.retry_count
            IN /\ stack' = SetTop([Top EXCEPT
                       !.in_progress = @ \ {q},
                       !.responses = Append(@, r)])
               /\ log' = IF reply.kind = "garbage"
                         THEN ParseErrorRecord(q.original_lines, d) ELSE log
               /\ errors' = IF reply.kind = "err"
                            THEN errors \cup {[original_lines |-> q.original_lines,
                                               depth |-> d]}
                            ELSE errors
               /\ overtaken' = (overtaken \/
                                \E k \in 1..Len(Top.responses) :
                                    Top.responses[k].number > q.number)
               /\ IF Mismatch(r)
                  THEN /\ mismatched' = Bump(mismatched, d)
                       /\ anomaly' =
                            IF /\ anomaly = NoAnomaly
                               /\ Len(r.translated_lines) = Len(r.original_lines) - 1
                            THEN OneShort(r.original_lines)
                            ELSE OtherAnomaly
                       /\ served' = served
                  ELSE /\ served' =
                            [i \in DOMAIN served \cup Range(r.original_lines) |->
                               IF i \in Range(r.original_lines)
                               THEN r.translated_lines[
                                        CHOOSE k \in 1..Len(r.original_lines) :
                                            r.original_lines[k] = i]
                               ELSE served[i]]
                       /\ UNCHANGED <<mismatched, anomaly>>
    /\ UNCHANGED <<pc, panic, lines, context, sentences, output, sent, carried, stats_log>>

\* bodies_stream.next() returns None: the round is over, the responses are
\* sorted by number and the fold over them starts.
Sort ==
    /\ pc = "running"
    /\ Top.at = "collect"
    /\ RoundOver(Top)
    /\ stack' = SetTop([Top EXCEPT !.responses = SortByNumber(@), !.at = "fold"])
    /\ UNCHANGED <<pc, panic, lines, context, sentences, output, served, sent, carried, mismatched, anomaly,
                   errors, overtaken, log, stats_log>>

\* Loop body for a response whose counts agree: its stats are logged and
\* translated.append(...).
FoldMatch ==
    /\ pc = "running"
    /\ Top.at = "fold"
    /\ Top.responses # <<>>
    /\ ~Mismatch(Head(Top.responses))
    /\ stats_log' = StatsRecord(Head(Top.responses).original_lines, Top.retry_count)
    /\ stack' = SetTop([Top EXCEPT
            !.responses = Tail(@),
            !.logged = @ \cup {Head(Top.responses).number},
            !.translated = @ \o Head(Top.responses).translated_lines])
    /\ UNCHANGED <<pc, panic, lines, context, sentences, output, served, sent, carried,
                   mismatched, anomaly, errors, overtaken, log>>

\* Mutant: the recursive translate_parallel is started and not awaited, the
\* loop goes on.
FoldRetry_Spawned ==
    /\ pc = "running"
    /\ Top.at = "fold"
    /\ Top.responses # <<>>
    /\ Mismatch(Head(Top.responses))
    /\ ~RetryMaxError(Top.retry_count)
    /\ stats_log' = StatsRecord(Head(Top.responses).original_lines, Top.retry_count)
    /\ stack' = SetTop([Top EXCEPT
                    !.responses = Tail(@),
                    !.logged = @ \cup {Head(Top.responses).number}])
                \o <<Recover(Head(Top.responses).original_lines, Top.retry_count)>>
    /\ log' = LengthErrorRecord(Head(Top.responses).original_lines,
                                Head(Top.responses).translated_lines, Top.retry_count)
    /\ UNCHANGED <<pc, panic, lines, context, sentences, output, served, sent, carried,
                   mismatched, anomaly, errors, overtaken>>

\* Loop body for a mismatching response below the ceiling: its stats are
\* logged, the lines are logged and the recursive translate_parallel is
\* entered and awaited.
FoldRetry ==
    /\ pc = "running"
    /\ Top.at = "fold"
    /\ Top.responses # <<>>
    /\ Mismatch(Head(Top.responses))
    /\ ~RetryMaxError(Top.retry_count)
    /\ stats_log' = StatsRecord(Head(Top.responses).original_lines, Top.retry_count)
    /\ stack' = SetTop([Top EXCEPT
                    !.responses = Tail(@),
                    !.logged = @ \cup {Head(Top.responses).number},
                    !.at = "await"])
                \o <<Recover(Head(Top.responses).original_lines, Top.retry_count)>>
    /\ log' = LengthErrorRecord(Head(Top.responses).original_lines,
                                Head(Top.responses).translated_lines, Top.retry_count)
    /\ UNCHANGED <<pc, panic, lines, context, sentences, output, served, sent, carried,
                   mismatched, anomaly, errors, overtaken>>

\* Mutant: at the ceiling the lines translated so far are returned.
FoldPanic_ReturnPartial ==
    /\ pc = "running"
    /\ Top.at = "fold"
    /\ Top.responses # <<>>
    /\ Mismatch(Head(Top.responses))
    /\ RetryMaxError(Top.retry_count)
    /\ pc' = "done"
    /\ output' = stack[1].translated
    /\ stack' = <<>>
    /\ UNCHANGED <<panic, lines, context, sentences, served, sent, carried, mismatched, anomaly,
                   errors, overtaken, log, stats_log>>

\* Mutant: response.stats.log() placed after the mismatch block, which the
\* panic never leaves.
FoldPanic_StatsAfter ==
    /\ pc = "running"
    /\ Top.at = "fold"
    /\ Top.responses # <<>>
    /\ Mismatch(Head(Top.responses))
    /\ RetryMaxError(Top.retry_count)
    /\ pc' = "panicked"
    /\ panic' = "retry max error"
    /\ stack' = <<>>
    /\ UNCHANGED <<lines, context, sentences, output, served, sent, carried, mismatched, anomaly,
                   errors, overtaken, log, stats_log>>

\* Loop body for a mismatching response at the ceiling: its stats are logged,
\* then panic!("retry max error").
FoldPanic ==
    /\ pc = "running"
    /\ Top.at = "fold"
    /\ Top.responses # <<>>
    /\ Mismatch(Head(Top.responses))
    /\ RetryMaxError(Top.retry_count)
    /\ stats_log' = StatsRecord(Head(Top.responses).original_lines, Top.retry_count)
    /\ pc' = "panicked"
    /\ panic' = "retry max error"
    /\ stack' = <<>>
    /\ UNCHANGED <<lines, context, sentences, output, served, sent, carried, mismatched, anomaly,
                   errors, overtaken, log>>

\* The loop is over: `translated` is returned, to translate or to the
\* activation awaiting it, which appends it in place of the mismatching lines.
Return ==
    /\ pc = "running"
    /\ Top.at = "fold"
    /\ Top.responses = <<>>
    /\ IF Len(stack) = 1
       THEN /\ pc' = "done"
            /\ output' = Top.translated
            /\ stack' = <<>>
       ELSE /\ pc' = pc
            /\ output' = output
            /\ stack' = [SubSeq(stack, 1, Len(stack) - 1) EXCEPT ![Len(stack) - 1] =
                            [@ EXCEPT !.translated = @ \o Top.translated, !.at = "fold"]]
    /\ UNCHANGED <<panic, lines, context, sentences, served, sent, carried, mismatched, anomaly,
                   errors, overtaken, log, stats_log>>

Next ==
    \/ Translate
    \/ Admit
    \/ RequestError
    \/ Complete
    \/ Sort
    \/ FoldMatch
    \/ FoldRetry
    \/ FoldPanic
    \/ Return

Spec == Init /\ [][Next]_vars

\* Every request returns and the executor keeps polling the task.
FairSpec == Spec /\ WF_vars(Next)

(***************************************************************************)
(* Properties                                                              *)
(***************************************************************************)

\* The requests in progress, over all activations.
RECURSIVE InProgress(_)
InProgress(st) ==
    IF st = <<>> THEN 0
    ELSE Cardinality(st[Len(st)].in_progress) + InProgress(SubSeq(st, 1, Len(st) - 1))

\* C1: when translate returns for a non-empty input, its output is non-empty
\* and has exactly as many lines as the input, whatever the line counts of the
\* responses were in any round.
C1_SameLength ==
    (pc = "done" /\ lines # <<>>) => (output # <<>> /\ Len(output) = Len(lines))

\* A return after mismatches in the first round and in a retry round.
C1_Witness ==
    /\ pc = "done"
    /\ Len(lines) >= 2
    /\ anomaly = OtherAnomaly
    /\ 1 \in DOMAIN mismatched
    /\ 2 \in DOMAIN sent

\* C2: the output holds at position i the line that the count-matching
\* response to the chunk containing input line i held at that line's offset,
\* whatever the completion order and the retries were.
C2_InputOrder ==
    pc = "done" =>
        /\ DOMAIN served = 1..Len(lines)
        /\ output = [i \in 1..Len(lines) |-> served[i]]

\* A return after responses completed out of order and after retries two deep.
C2_Witness ==
    /\ pc = "done"
    /\ overtaken
    /\ 2 \in DOMAIN sent

\* C3: never more than context.requests requests are in progress, over all
\* activations of translate_parallel.
C3_Cap == InProgress(stack) <= context.requests

\* A retry round with as many requests in progress as the limit allows.
C3_Witness ==
    /\ Len(stack) >= 2
    /\ context.requests >= 2
    /\ Cardinality(Top.in_progress) = context.requests

\* C4: if every request returns, the call ends: in a panic, or in a return
\* after every input line was held by a count-matching response.  A mismatch
\* that never goes away therefore ends in the panic.
C4_Terminates ==
    <>(pc = "panicked" \/ (pc = "done" /\ DOMAIN served = 1..Len(lines)))

\* The panic of retry exhaustion, after a mismatch in the round at the last depth.
C4_Witness ==
    /\ pc = "panicked"
    /\ panic = "retry max error"
    /\ (MaxRetry + 1) \in DOMAIN mismatched

\* C5: for the empty input no request is issued, translate_parallel is not
\* entered, and the output is empty.
C5_EmptyInput ==
    lines = <<>> =>
        /\ sent = <<>>
        /\ stack = <<>>
        /\ pc \in {"init", "done"}
        /\ output = <<>>

C5_Witness == lines = <<>> /\ pc = "done"

\* The chunks lines.chunks(chunk_lines) yields.
NumChunks == (Len(lines) + context.lines - 1) \div context.lines

\* The depth of the request whose response held a translated line.
DepthOf(line) == line[1][2]

\* C6: when the only mismatch is one chunk of the first round that came back
\* one line short, the requests are those of the first round and one
\* single-line request at depth 1 for each line of that chunk, and the output
\* has the input's length, in the input's order.
C6_OneRetryRound ==
    (pc = "done" /\ anomaly.kind = "one short") =>
        /\ mismatched = (0 :> 1)
        /\ sent = (0 :> NumChunks) @@ (1 :> Len(anomaly.original_lines))
        /\ Len(output) = Len(lines)
        /\ \A i \in 1..Len(lines) :
             /\ output[i] = served[i]
             /\ DepthOf(output[i]) =
                    IF i \in Range(anomaly.original_lines) THEN 1 ELSE 0

\* Such a run where the short chunk had two lines and was not the only chunk.
C6_Witness ==
    /\ pc = "done"
    /\ anomaly.kind = "one short"
    /\ NumChunks >= 2
    /\ Len(anomaly.original_lines) = 2

\* C7: once request() answered a request with Err, the call has panicked with
\* the message of the expect, no activation is left, nothing is returned and
\* no step (no retry, no new request) follows.
C7_TransportFatal ==
    errors # {} =>
        /\ pc = "panicked"
        /\ panic = "Gemini API Request Error"
        /\ stack = <<>>
        /\ output = <<>>
        /\ ~ENABLED Next

\* An Err in a retry round, after other lines were translated.
C7_Witness ==
    /\ \E e \in errors : e.depth >= 1
    /\ served # <<>>

\* The step that writes the parse error record.
ParseFailureStep == log' # log /\ log'.msg = "JSON Parse error choice"

\* C8: a parse failure ends in no panic: the response pushed has the number
\* and the original lines of its request and no translated line, which is a
\* mismatch; and a response without translated lines is folded like any
\* mismatch: retried one deeper with single lines, or "retry max error" above
\* the ceiling.
C8_ParseFailure ==
    [][/\ ParseFailureStep =>
            /\ pc' = "running"
            /\ Len(stack') = Len(stack)
            /\ \E q \in Top.in_progress :
                 /\ q.original_lines = log'.about
                 /\ stack' = SetTop([Top EXCEPT
                        !.in_progress = @ \ {q},
                        !.responses = Append(@,
                            [number |-> q.number,
                             original_lines |-> q.original_lines,
                             translated_lines |-> <<>>])])
                 /\ Mismatch(stack'[Len(stack')].responses[Len(Top.responses) + 1])
       /\ ( /\ pc = "running"
            /\ Top.at = "fold"
            /\ Top.responses # <<>>
            /\ Head(Top.responses).translated_lines = <<>> ) =>
            IF Top.retry_count > MaxRetry
            THEN pc' = "panicked" /\ panic' = "retry max error"
            ELSE /\ pc' = "running"
                 /\ stack' = SetTop([Top EXCEPT
                                !.responses = Tail(@),
                                !.logged = @ \cup {Head(Top.responses).number},
                                !.at = "await"])
                        \o <<Activation(Head(Top.responses).original_lines, 1,
                                        Top.retry_count + 1)>>
      ]_vars

\* The response of a parse failure in a retry round, about to be folded.
C8_Witness ==
    /\ pc = "running"
    /\ Len(stack) >= 2
    /\ Top.at = "fold"
    /\ Top.responses # <<>>
    /\ Head(Top.responses).translated_lines = <<>>
    /\ log = ParseErrorRecord(Head(Top.responses).original_lines, Top.retry_count)

\* C9: an output exists only once the call returned, and then no activation
\* and no request is left and every input line was held by a count-matching
\* response; a call that panicked returned nothing.
C9_Batch ==
    /\ pc = "done" =>
         /\ stack = <<>>
         /\ InProgress(stack) = 0
         /\ DOMAIN served = 1..Len(lines)
    /\ pc # "done" => output = <<>>

\* A panic of retry exhaustion after other lines were translated.
C9_Witness ==
    /\ pc = "panicked"
    /\ panic = "retry max error"
    /\ served # <<>>
    /\ output = <<>>

\* A mismatching response is about to be folded.
FoldsMismatch ==
    /\ pc = "running"
    /\ Top.at = "fold"
    /\ Top.responses # <<>>
    /\ Mismatch(Head(Top.responses))

Retried ==
    /\ pc' = "running"
    /\ Len(stack') = Len(stack) + 1
    /\ stack'[Len(stack')].retry_count = Top.retry_count + 1
    /\ stack'[Len(stack')].rest = Head(Top.responses).original_lines

Exhausted == pc' = "panicked" /\ panic' = "retry max error"

\* C10 as stated: a mismatch at depth d is retried whenever d <= 5 and is
\* fatal only when d > 5.
C10_Original ==
    [][FoldsMismatch =>
         IF Top.retry_count > MaxRetry + 1 THEN Exhausted ELSE Retried]_vars

\* C10 amended: a mismatch at depth d is retried whenever d <= 4 and is fatal
\* exactly when d > 4, that is in the round at depth 5.
C10_Ceiling ==
    [][FoldsMismatch =>
         IF Top.retry_count > MaxRetry THEN Exhausted ELSE Retried]_vars

\* Retry exhaustion: a mismatch at depth 4 was retried, the mismatch at depth 5
\* was fatal.
C10_Witness ==
    /\ pc = "panicked"
    /\ panic = "retry max error"
    /\ (MaxRetry + 1) \in DOMAIN sent
    /\ (MaxRetry + 1) \in DOMAIN mismatched
    /\ (MaxRetry + 2) \notin DOMAIN sent

\* C11: a retry is entered for a mismatching response only, with exactly that
\* response's original lines, chunk size 1 and retry_count + 1, and leaves the
\* lines translated so far and the other responses of the round as they are;
\* a request at depth >= 1 carries one line, a line of its round that no
\* count-matching response has held; the retry's result, one line per line
\* sent, is appended in the place of the chunk; and a line held by a
\* count-matching response keeps it.
C11_RetryExact ==
    [][/\ context' = context
       /\ (stack # <<>> /\ pc' = "running" /\ Len(stack') = Len(stack) + 1) =>
            /\ FoldsMismatch
            /\ stack'[Len(stack')] =
                  Activation(Head(Top.responses).original_lines, 1, Top.retry_count + 1)
            /\ stack'[Len(stack)].translated = Top.translated
            /\ stack'[Len(stack)].responses = Tail(Top.responses)
       /\ (stack # <<>> /\ pc' = "running" /\ Len(stack') = Len(stack)) =>
            \A q \in stack'[Len(stack')].in_progress \ Top.in_progress :
                /\ Top.retry_count >= 1 => Len(q.original_lines) = 1
                /\ Range(q.original_lines) \subseteq Range(Top.lines)
                /\ Range(q.original_lines) \cap DOMAIN served = {}
       /\ (pc' = "running" /\ Len(stack') = Len(stack) - 1) =>
            /\ Len(Top.translated) = Len(Top.lines)
            /\ stack'[Len(stack')].translated =
                  stack[Len(stack) - 1].translated \o Top.translated
            /\ stack'[Len(stack')].responses = stack[Len(stack) - 1].responses
       /\ \A i \in DOMAIN served : i \in DOMAIN served' /\ served'[i] = served[i]
      ]_vars

\* A retry round with a request in progress, while the round that awaits it
\* has appended a matching chunk and holds another one still to fold.
C11_Witness ==
    /\ Len(stack) >= 2
    /\ Top.in_progress # {}
    /\ stack[Len(stack) - 1].translated # <<>>
    /\ \E k \in 1..Len(stack[Len(stack) - 1].responses) :
          ~Mismatch(stack[Len(stack) - 1].responses[k])

\* Every chunk of the round of activation f was requested and has completed.
AllCompleted(f) ==
    /\ f.rest = <<>>
    /\ f.in_progress = {}
    /\ Len(f.responses) + Cardinality(f.logged) = f.number

\* C12: an activation that is still collecting has examined no response,
\* appended nothing and entered no retry; one that folds or awaits a retry has
\* no chunk left to request and none in progress; and the panic of retry
\* exhaustion is raised from such an activation only.
C12_Barrier ==
    /\ [](\A k \in 1..Len(stack) :
            IF stack[k].at = "collect"
            THEN /\ k = Len(stack)
                 /\ stack[k].logged = {}
                 /\ stack[k].translated = <<>>
            ELSE AllCompleted(stack[k]))
    /\ [][(\/ Exhausted
            \/ stats_log' # stats_log
            \/ (stack # <<>> /\ Len(stack') > Len(stack)))
             => AllCompleted(Top)]_vars

\* A round of two chunks: the first has completed with a mismatch, the second
\* is still in progress, and nothing has been examined.
C12_Witness ==
    /\ pc = "running"
    /\ Top.at = "collect"
    /\ Top.in_progress # {}
    /\ \E k \in 1..Len(Top.responses) :
          /\ Mismatch(Top.responses[k])
          /\ \A q \in Top.in_progress : q.number > Top.responses[k].number

\* The chunks of the round of activation f.
ChunksOf(f) == (Len(f.lines) + f.chunk_lines - 1) \div f.chunk_lines

\* The numbers of the requests of activation f: in progress, answered and
\* not yet folded, folded.
NumbersOf(f) ==
    {q.number : q \in f.in_progress}
    \cup {f.responses[j].number : j \in 1..Len(f.responses)}
    \cup f.logged

\* C13: in every round the requests made so far are those of the chunks
\* 1..number, one request each, never more than the round has chunks; and once
\* the round is over every chunk of it has been requested.
C13_OncePerRound ==
    \A k \in 1..Len(stack) :
        /\ NumbersOf(stack[k]) = 1..stack[k].number
        /\ Cardinality(stack[k].in_progress) + Len(stack[k].responses)
              + Cardinality(stack[k].logged) = stack[k].number
        /\ stack[k].number <= ChunksOf(stack[k])
        /\ stack[k].at # "collect" => stack[k].number = ChunksOf(stack[k])

\* A round of more chunks than the limit admits at once is over, with all
\* its responses.
C13_Witness ==
    /\ pc = "running"
    /\ Top.at = "fold"
    /\ Top.number > context.requests
    /\ Len(Top.responses) = Top.number

\* The n-th chunk of ls for chunk size c, as a slice of ls.
ChunkAt(ls, c, n) == SubSeq(ls, (n - 1) * c + 1, Min(n * c, Len(ls)))

\* The requests and responses of activation f that are not folded yet, as
\* [number, original_lines] pairs.
Pending(f) ==
    {[number |-> q.number, original_lines |-> q.original_lines] : q \in f.in_progress}
    \cup {[number |-> f.responses[j].number,
           original_lines |-> f.responses[j].original_lines] : j \in 1..Len(f.responses)}

\* C14: the chunk numbered n of a round is the n-th slice of chunk_lines
\* lines of the round's line sequence: non-empty, of the configured size
\* unless it is the last, numbered from 1 in input order with distinct
\* numbers; the lines not yet chunked are those after the chunks made, so
\* the chunks in number order concatenate to the round's lines.
C14_Chunker ==
    \A k \in 1..Len(stack) :
        /\ stack[k].chunk_lines >= 1
        /\ stack[k].rest =
              SubSeq(stack[k].lines, stack[k].number * stack[k].chunk_lines + 1,
                     Len(stack[k].lines))
        /\ \A q \in Pending(stack[k]) :
              /\ q.number \in 1..stack[k].number
              /\ q.original_lines = ChunkAt(stack[k].lines, stack[k].chunk_lines, q.number)
              /\ Len(q.original_lines) >= 1
              /\ Len(q.original_lines) <= stack[k].chunk_lines
              /\ Len(q.original_lines) < stack[k].chunk_lines
                    => q.number = ChunksOf(stack[k])
        /\ \A q1, q2 \in Pending(stack[k]) :
              q1.number = q2.number => q1 = q2
        /\ \A q1, q2 \in Pending(stack[k]) :
              q1.number < q2.number =>
                  \A i \in Range(q1.original_lines), j \in Range(q2.original_lines) : i < j

\* A shorter last chunk is admitted lazily, after the limit's worth of
\* chunks has been admitted.
C14_Witness ==
    /\ pc = "running"
    /\ \E q \in Top.in_progress :
          /\ q.number > context.requests
          /\ Len(q.original_lines) < Top.chunk_lines

\* C15: while chunks of the round are queued and fewer than `requests`
\* requests are in progress, the only step taken is the admission of the next
\* chunk in number order; and the completion of any one request, whichever it
\* is, with chunks still queued leaves fewer than `requests` in progress, so
\* that the next chunk is admitted next whatever else is still in progress.
C15_Pool ==
    [][/\ (/\ pc = "running"
           /\ Top.at = "collect"
           /\ Top.rest # <<>>
           /\ Cardinality(Top.in_progress) < context.requests)
          => /\ pc' = "running"
             /\ Len(stack') = Len(stack)
             /\ stack'[Len(stack')].at = "collect"
             /\ stack'[Len(stack')].responses = Top.responses
             /\ stack'[Len(stack')].in_progress = Top.in_progress \cup
                   {[number |-> Top.number + 1,
                     original_lines |->
                        ChunkAt(Top.lines, Top.chunk_lines, Top.number + 1)]}
             /\ Cardinality(stack'[Len(stack')].in_progress) =
                   Cardinality(Top.in_progress) + 1
       /\ (/\ pc = "running" /\ pc' = "running"
           /\ Top.at = "collect"
           /\ Len(stack') = Len(stack)
           /\ Len(stack'[Len(stack')].responses) = Len(Top.responses) + 1)
          => /\ stack'[Len(stack')].rest = Top.rest
             /\ Cardinality(stack'[Len(stack')].in_progress) =
                   Cardinality(Top.in_progress) - 1
             /\ Cardinality(stack'[Len(stack')].in_progress) < context.requests
      ]_vars

\* The first chunk's request is still in progress while the third chunk's
\* has been admitted into the other of two slots.
C15_Witness ==
    /\ pc = "running"
    /\ context.requests = 2
    /\ \E q1, q3 \in Top.in_progress : q1.number = 1 /\ q3.number = 3
    /\ \E k \in 1..Len(Top.responses) : Top.responses[k].number = 2

\* The fold is about to examine a response.
Folds ==
    /\ pc = "running"
    /\ Top.at = "fold"
    /\ Top.responses # <<>>

\* C16 as stated: when a mismatching result is handled, by a retry or by the
\* fatal failure, the stats of every result of its round have been recorded.
C16_Original ==
    [][FoldsMismatch =>
         Top.logged \cup {Head(Top.responses).number} = 1..Top.number]_vars

\* C16 amended: the results of a round are examined in number order and the
\* stats of each are recorded when it is examined, before its own mismatch is
\* handled (retried or failed fatally), and at no other time; so the stats
\* recorded in a round are those of the results before the ones still to
\* examine, none while the round is awaited, and all of them when the round
\* returns.
C16_StatsPerResult ==
    /\ [](\A k \in 1..Len(stack) :
            /\ stack[k].at = "collect" => stack[k].logged = {}
            /\ stack[k].at # "collect" =>
                 stack[k].logged = 1..stack[k].number \
                     {stack[k].responses[j].number : j \in 1..Len(stack[k].responses)}
            /\ \A n \in stack[k].logged : \A j \in 1..Len(stack[k].responses) :
                 n < stack[k].responses[j].number)
    /\ [][/\ Folds =>
               /\ stats_log' = [about |-> Head(Top.responses).original_lines,
                                depth |-> Top.retry_count]
               /\ pc' = "running" =>
                    stack'[Len(stack)].logged =
                        Top.logged \cup {Head(Top.responses).number}
          /\ stats_log' # stats_log => Folds
          /\ (stack # <<>> /\ ~Folds /\ pc' = "running") =>
               \A k \in 1..Min(Len(stack), Len(stack')) :
                   stack'[k].logged = stack[k].logged
          /\ (stack # <<>> /\ pc' = "done") => Top.logged = 1..Top.number
         ]_vars

\* A retry's request has been made while a later result of the parent round
\* has no stats recorded yet.
C16_Witness ==
    /\ pc = "running"
    /\ Len(stack) >= 2
    /\ stack[1].responses # <<>>
    /\ stack[1].logged # 1..stack[1].number
    /\ Top.number >= 1
    /\ stats_log.depth = 0

\* The log records of a mismatching response about to be folded: its original
\* and its translated lines, and the error message.
MismatchLogged ==
    log' = [msg |-> "translated line length error",
            about |-> Head(Top.responses).original_lines,
            translated |-> Head(Top.responses).translated_lines,
            depth |-> Top.retry_count]

\* C17 as stated: every mismatch the fold detects is logged with its original
\* and translated lines and the error message.
C17_Original ==
    [][FoldsMismatch => MismatchLogged]_vars

\* C17 amended: a mismatch the fold detects is either retried or fatal; a
\* retried one is logged with its original and translated lines and the error
\* message before the retry round is entered, so that the log holds it when
\* the round's first request is made; the one that exhausts the retries is not
\* logged, the panic "retry max error" is all there is of it.
C17_Logged ==
    [][/\ FoldsMismatch => (Retried \/ Exhausted)
       /\ (FoldsMismatch /\ Retried) =>
            /\ MismatchLogged
            /\ stack'[Len(stack')].number = 0
            /\ stack'[Len(stack')].in_progress = {}
            /\ sent' = sent
       /\ (FoldsMismatch /\ Exhausted) => log' = log
       /\ (/\ pc = "running" /\ stack # <<>>
           /\ Top.retry_count >= 1
           /\ Top.number = 0
           /\ sent' # sent) =>
            /\ log.msg = "translated line length error"
            /\ log.about = Top.lines
            /\ log.depth = Top.retry_count - 1
            /\ Len(log.translated) # Len(log.about)
      ]_vars

\* The first request of a retry round is in progress and the log holds the
\* mismatch it retries, with the translated lines received.
C17_Witness ==
    /\ pc = "running"
    /\ Len(stack) >= 2
    /\ Top.number = 1
    /\ Top.in_progress # {}
    /\ log.msg = "translated line length error"
    /\ log.about = Top.lines
    /\ log.translated # <<>>

\* C18: only the innermost round has requests in progress; every other round
\* is over and awaits the retry of one of its chunks, and does not move, nor
\* examine another response, until that retry has returned with a line for
\* each of its lines; the responses still to examine are in number order, after
\* the ones examined, so that the mismatching chunks of a round are retried one
\* after the other in number order.
C18_NoOverlap ==
    /\ [](/\ \A k \in 1..(Len(stack) - 1) :
                /\ stack[k].at = "await"
                /\ stack[k].in_progress = {}
                /\ stack[k].rest = <<>>
                /\ stack[k + 1].retry_count = stack[k].retry_count + 1
                /\ \A j \in 1..Len(stack[k].responses) :
                      \A i \in Range(stack[k + 1].lines) :
                      \A i2 \in Range(stack[k].responses[j].original_lines) : i < i2
          /\ stack # <<>> => Top.at # "await"
          /\ \A k \in 1..Len(stack) :
                /\ stack[k].at = "collect" => stack[k].logged = {}
                /\ stack[k].at # "collect" =>
                     \A j \in 1..(Len(stack[k].responses) - 1) :
                        stack[k].responses[j].number < stack[k].responses[j + 1].number)
    /\ [][/\ pc' = "running" =>
               \A k \in 1..(Len(stack) - 1) :
                   k < Len(stack') => stack'[k] = stack[k]
          /\ (pc' = "running" /\ Len(stack') = Len(stack) - 1) =>
               /\ Top.at = "fold"
               /\ Top.responses = <<>>
               /\ Top.in_progress = {}
               /\ Top.rest = <<>>
               /\ Len(Top.translated) = Len(Top.lines)
          /\ (pc' = "running" /\ Len(stack') = Len(stack) + 1 /\ stack # <<>>) =>
               /\ Top.in_progress = {}
               /\ \A n \in Top.logged : n < Head(Top.responses).number
               /\ \A j \in 2..Len(Top.responses) :
                     Head(Top.responses).number < Top.responses[j].number
         ]_vars

\* The second mismatching chunk of a round is being retried, after the retry
\* of the first has returned.
C18_Witness ==
    /\ pc = "running"
    /\ Len(stack) = 2
    /\ 0 \in DOMAIN mismatched
    /\ mismatched[0] >= 2
    /\ stack[1].translated # <<>>
    /\ Cardinality(stack[1].logged) >= 2
    /\ 1 \in DOMAIN sent
    /\ sent[1] >= 2
    /\ Top.in_progress # {}

\* The requests issued at the depths 0..d.
RECURSIVE SentUpTo(_)
SentUpTo(d) ==
    IF d < 0 THEN 0
    ELSE (IF d \in DOMAIN sent THEN sent[d] ELSE 0) + SentUpTo(d - 1)

\* C19: no request is issued at a depth above 5; at most ceil(L/c) requests
\* are issued at depth 0; at every depth a line is carried by at most one
\* request, so at most L requests are issued at each of the depths 1..5; and
\* the requests of the run number at most ceil(L/c) + 5 * L.
C19_Bounded ==
    /\ DOMAIN sent \subseteq 0..(MaxRetry + 1)
    /\ DOMAIN carried = DOMAIN sent
    /\ 0 \in DOMAIN sent =>
          sent[0] <= (Len(lines) + context.lines - 1) \div context.lines
    /\ \A d \in DOMAIN carried :
          /\ DOMAIN carried[d] \subseteq 1..Len(lines)
          /\ \A i \in DOMAIN carried[d] : carried[d][i] = 1
          /\ d >= 1 => sent[d] <= Cardinality(DOMAIN carried[d])
          /\ d >= 1 => sent[d] <= Len(lines)
    /\ SentUpTo(MaxRetry + 1) <=
          (Len(lines) + context.lines - 1) \div context.lines + (MaxRetry + 1) * Len(lines)

\* Requests were issued at every depth up to 5, two of them at depth 1.
C19_Witness ==
    /\ (MaxRetry + 1) \in DOMAIN sent
    /\ sent[1] >= 2
    /\ SentUpTo(MaxRetry + 1) >= MaxRetry + 4

====
